---- MODULE Spec2Model ----
(***************************************************************************)
(* A model of mffpy: the calibration / unit pipeline of BinFile            *)
(* (bin_files.py), the container-level Reader (__init__.py), the XMLType   *)
(* schema registry and the timestamp wire format of XML (xml_files.py).    *)
(*                                                                         *)
(* Four specifications share the variables:                                *)
(*   Spec          Reader and BinFile: blobs, calibration, unit, reads     *)
(*   ReaderSpec    Reader: lazily built and cached values, failing groups  *)
(*   RegistrySpec  XMLType.register / from_file / todict                   *)
(*   TimeSpec      XML._dump_datetime / XML._parse_time_str                *)
(*                                                                         *)
(* Numbers.  Samples and calibration factors are integers; a unit scale is *)
(* a power of ten.  A product is kept exactly as a decimal number          *)
(* [m |-> mantissa, e |-> exponent] (value m * 10^e), normalised so that   *)
(* equal values are equal records.  Floating point rounding and the final  *)
(* astype(dtype) cast are not modelled.                                    *)
(*                                                                         *)
(* Errors.  An operation that raises is recorded with the exception's      *)
(* name as its outcome.  assert statements are executed (the interpreter   *)
(* does not run with -O).                                                  *)
(***************************************************************************)
EXTENDS Integers, Sequences, FiniteSets, TLC

VARIABLES
    groups,         \* the container's signal groups, in signals_with_info order
    blobs,          \* Reader._blobs: unset until first access, then type -> group
    binfiles,       \* the constructed BinFile objects, by group number
    corrupt,        \* the group whose BinFile cannot be constructed, 0 for none
    memo,           \* values cached on instances: info.calibrations by group,
                    \* Reader._startdatetime
    computed,       \* how often each lazy computation has run so far
    last,           \* the last operation: its arguments, outcome and pre-state
    registry,       \* XMLType._registry: ns+tag -> parser type
    tag_registry,   \* XMLType._tag_registry: root tag -> parser type
    dt,             \* TimeSpec: the datetime under test
    wire            \* TimeSpec: the timestamp text under test

vars == <<groups, blobs, binfiles, corrupt, memo, computed, last,
          registry, tag_registry, dt, wire>>

None == "None"

\* ------------------------------------------------------------------------
\* Bounds of the model
\* ------------------------------------------------------------------------
NumChannels == 2        \* channels per stream
NumGroups == 2          \* signal groups in the container
NumBlocks == 2          \* blocks per stream
MaxT0 == 3              \* largest requested t0, in ticks of 1/TimeDenom s

\* ------------------------------------------------------------------------
\* Exact decimal numbers
\* ------------------------------------------------------------------------
RECURSIVE Num(_, _)
Num(m, e) ==
    IF m = 0 THEN [m |-> 0, e |-> 0]
    ELSE IF m % 10 = 0 THEN Num(m \div 10, e + 1)
    ELSE [m |-> m, e |-> e]

ToNum(i) == Num(i, 0)
Pow10(e) == Num(1, e)
NumMul(a, b) == Num(a.m * b.m, a.e + b.e)

\* ------------------------------------------------------------------------
\* DataInfo documents (xml_files.py DataInfo.generalInformation and
\* DataInfo.calibrations): the signal type and, per calibration name,
\* beginTime and channel number -> factor.
\* ------------------------------------------------------------------------
Channels == 1..NumChannels

DataInfos ==
    [ infoA |->
        [ channel_type |-> "EEG",
          calibrations |->
            [ GCAL |-> [beginTime |-> 0, channels |-> [n \in {1} |-> 2]],
              ICAL |-> [beginTime |-> 0,
                        channels |-> [n \in {NumChannels} |-> 3]],
              LATE |-> [beginTime |-> 5, channels |-> [n \in {1} |-> 5]] ] ],
      infoB |->
        [ channel_type |-> "PNS",
          calibrations |->
            [ GCAL |-> [beginTime |-> 0, channels |-> [n \in Channels |-> n + 1]],
              LATE |-> [beginTime |-> 5,
                        channels |-> [n \in Channels |-> 7]],
              WIDE |-> [beginTime |-> 0,
                        channels |-> [n \in {1, NumChannels + 1} |-> 4]] ] ] ]

CalNames == {"GCAL", "ICAL", "LATE", "WIDE", "XCAL"}

\* ------------------------------------------------------------------------
\* BinFile (bin_files.py)
\* ------------------------------------------------------------------------
raw_unit == "uV"

\* _scale_converter: the scale 10^e is stored as its exponent e
scale_converter ==
    [ VV |-> 0, mVmV |-> 0, uVuV |-> 0,
      VmV |-> 3, mVV |-> -3,
      VuV |-> 6, uVV |-> -6,
      mVuV |-> 3, uVmV |-> -3 ]

Units == {"V", "mV", "uV", "nV", ""}

Rows == 0..(NumChannels - 1)

\* a matrix with one row more than there are channels
ones_wide == [r \in 0..NumChannels |-> 1]

\* np.ones(self.num_channels)[:, None], rows 0..NumChannels-1
ones == [r \in Rows |-> 1]

Ok(st) == [outcome |-> "ok", state |-> st]
Raised(err, st) == [outcome |-> err, state |-> st]

\* the rows written by `for i, c in calibration['channels'].items():
\*     self._calibration[i-1] = c`, rows indexed 0..NumChannels-1
WriteRows(matrix, channels) ==
    [r \in Rows |->
        IF (r + 1) \in DOMAIN channels THEN channels[r + 1] ELSE matrix[r]]

\* self._calibration[i-1] is a row of the matrix; channel numbers start at 1
InRange(n) == 1 <= n /\ n <= NumChannels

\* the items of calibration['channels'] the loop assigns before an index is
\* out of range, the channels taken in ascending order
WrittenBefore(channels) ==
    LET ns == {n \in DOMAIN channels :
                  \A k \in DOMAIN channels : k <= n => InRange(k)}
    IN  [n \in ns |-> channels[n]]

\* a setter that keeps the previous matrix instead of starting from ones
calibration_setter_keeping(bf, cal) ==
    LET cals == DataInfos[bf.info].calibrations
    IN  IF cal = None THEN Ok([bf EXCEPT !.calibration = ones])
        ELSE IF cal \notin DOMAIN cals THEN Raised("AssertionError", bf)
        ELSE IF cals[cal].beginTime # 0 THEN Raised("AssertionError", bf)
        ELSE Ok([bf EXCEPT
                   !.calibration = WriteRows(bf.calibration, cals[cal].channels)])

\* BinFile.calibration setter: the BinFile after the call and how it ended.
\* The matrix is reset to ones before the asserts run; a channel number
\* beyond the matrix raises IndexError after the channels before it were
\* written.
calibration_setter(bf, cal) ==
    LET reset == [bf EXCEPT !.calibration = ones]
        cals == DataInfos[bf.info].calibrations
    IN  IF cal = None THEN Ok(reset)
        ELSE IF cal \notin DOMAIN cals THEN Raised("AssertionError", reset)
        ELSE IF cals[cal].beginTime # 0 THEN Raised("AssertionError", reset)
        ELSE LET channels == cals[cal].channels
                 written == [reset EXCEPT !.calibration =
                               WriteRows(reset.calibration,
                                         WrittenBefore(channels))]
             IN  IF \E n \in DOMAIN channels : ~InRange(n)
                 THEN Raised("IndexError", written)
                 ELSE Ok(written)

\* a setter that stores the unit before it looks the scale up
unit_setter_eager(bf, u) ==
    LET key == raw_unit \o u
    IN  IF key \notin DOMAIN scale_converter
        THEN Raised("KeyError", [bf EXCEPT !.unit = u])
        ELSE Ok([bf EXCEPT !.scale = scale_converter[key], !.unit = u])

\* a setter that also starts the calibration matrix over
unit_setter_resetting(bf, u) ==
    LET key == raw_unit \o u
    IN  IF key \notin DOMAIN scale_converter THEN Raised("KeyError", bf)
        ELSE Ok([bf EXCEPT !.scale = scale_converter[key], !.unit = u,
                           !.calibration = ones])

\* BinFile.unit setter: the lookup raises before anything is assigned
unit_setter(bf, u) ==
    LET key == raw_unit \o u
    IN  IF key \notin DOMAIN scale_converter THEN Raised("KeyError", bf)
        ELSE Ok([bf EXCEPT !.scale = scale_converter[key], !.unit = u])

\* BinFile.__init__: class attributes _unit, _scale; calibration = None
BinFile(info, signal_type) ==
    calibration_setter(
        [info |-> info, signal_type |-> signal_type,
         calibration |-> <<>>, unit |-> raw_unit, scale |-> 0], None).state

\* ------------------------------------------------------------------------
\* RawBinFile.read_raw_samples (raw_bin_files.py is not among the sources;
\* modelled from the specification, section 4.2).  Times are whole numbers
\* of ticks, TimeDenom ticks to the second.  An optional argument is a
\* sequence: <<>> when omitted, <<v>> when given.
\* ------------------------------------------------------------------------
TimeDenom == 4          \* ticks per second
SamplingRate == 2       \* samples per second
BlockLen == 2           \* samples per block
NumSamples == NumBlocks * BlockLen

\* the encoded sample of row r at sample index s (0-based) of group g's stream
Raw(g, r, s) == ((g + 2 * r + 3 * s) % 5) - 2

Window(g, first, end) ==
    [r \in Rows |-> [i \in 1..(end - first) |-> Raw(g, r, first + i - 1)]]

Min(a, b) == IF a < b THEN a ELSE b

read_raw_samples(g, t0, dtopt, block_slice) ==
    IF block_slice # <<>>
    THEN LET first == block_slice[1] * BlockLen
             end == Min(block_slice[2], NumBlocks) * BlockLen
         IN  [samples |-> Window(g, first, end),
              start_time |-> <<first, SamplingRate>>]
    ELSE LET first == (t0 * SamplingRate) \div TimeDenom
             want == IF dtopt = <<>> THEN NumSamples
                     ELSE ((t0 + dtopt[1]) * SamplingRate + TimeDenom - 1)
                              \div TimeDenom
             end == Min(want, NumSamples)
         IN  [samples |-> Window(g, first, end),
              start_time |-> <<first, SamplingRate>>]

\* a read that applies the calibration and forgets the unit scale
get_physical_samples_unscaled(bf, g, t0, dtopt, block_slice) ==
    LET raw == read_raw_samples(g, t0, dtopt, block_slice)
    IN  [samples |-> [r \in Rows |->
                        [i \in DOMAIN raw.samples[r] |->
                            NumMul(ToNum(bf.calibration[r]),
                                   ToNum(raw.samples[r][i]))]],
         start_time |-> raw.start_time]

\* BinFile.get_physical_samples: (self.calibration*self.scale*samples), the
\* (channels, 1) column broadcast along each row
get_physical_samples(bf, g, t0, dtopt, block_slice) ==
    LET raw == read_raw_samples(g, t0, dtopt, block_slice)
        factor == [r \in Rows |-> NumMul(ToNum(bf.calibration[r]), Pow10(bf.scale))]
    IN  [samples |-> [r \in Rows |->
                        [i \in DOMAIN raw.samples[r] |->
                            NumMul(factor[r], ToNum(raw.samples[r][i]))]],
         start_time |-> raw.start_time]

\* ------------------------------------------------------------------------
\* Reader (__init__.py)
\* ------------------------------------------------------------------------
SignalTypes == {"EEG", "PNS"}

\* the default of BinFile.__init__'s signal_type, which Reader.blobs leaves
DefaultSignalType == "EEG"

\* how often Reader.startdatetime is read in one run
MaxAccesses == 2

\* the loop of Reader.blobs over signals_with_info(), from group i on; the
\* construction of the group `corrupt` raises and ends the loop, with the
\* entries of the groups before it already stored in self._blobs
RECURSIVE BuildBlobs(_, _, _)
BuildBlobs(i, map, files) ==
    IF i > NumGroups THEN [map |-> map, files |-> files, raised |-> FALSE]
    ELSE IF i = corrupt THEN [map |-> map, files |-> files, raised |-> TRUE]
    ELSE LET bf == BinFile(groups[i], DefaultSignalType)
         IN  BuildBlobs(i + 1,
                 [t \in (DOMAIN map) \cup {bf.signal_type} |->
                     IF t = bf.signal_type THEN i ELSE map[t]],
                 [j \in (DOMAIN files) \cup {i} |->
                     IF j = i THEN bf ELSE files[j]])

EmptyMap == [t \in {} |-> 0]

\* Reader.blobs: the cached map, built on the first access
Blobs ==
    IF blobs.has
    THEN [map |-> blobs.map, files |-> binfiles, raised |-> FALSE]
    ELSE BuildBlobs(1, EmptyMap, [j \in {} |-> 0])

Cached(b) == [has |-> TRUE, map |-> b.map]

\* the loop of Reader.blobs runs when self._blobs is not set yet
BlobsRun == [computed EXCEPT !.blobs = @ + (IF blobs.has THEN 0 ELSE 1)]

\* an operation whose first access of Reader.blobs raised: self._blobs was
\* assigned before the loop and keeps the entries stored so far
BlobsRaised(b, by) ==
    /\ blobs' = Cached(b)
    /\ binfiles' = b.files
    /\ computed' = BlobsRun
    /\ last' = [op |-> "blobs_raised", by |-> by]
    /\ UNCHANGED <<groups, corrupt, memo, registry, tag_registry, dt, wire>>

\* reader.blobs
AccessBlobs ==
    /\ ~blobs.has
    /\ LET b == Blobs
       IN  IF b.raised THEN BlobsRaised(b, "blobs")
           ELSE /\ blobs' = Cached(b)
                /\ binfiles' = b.files
                /\ computed' = BlobsRun
                /\ last' = [op |-> "blobs", built |-> TRUE, result |-> b.map]
                /\ UNCHANGED <<groups, corrupt, memo,
                               registry, tag_registry, dt, wire>>

\* reader.blobs again, served from self._blobs
AccessBlobsAgain ==
    /\ blobs.has
    /\ last' = [op |-> "blobs", built |-> FALSE, result |-> Blobs.map]
    /\ UNCHANGED <<groups, blobs, binfiles, corrupt, memo, computed,
                   registry, tag_registry, dt, wire>>

\* info.calibrations of group g, a cached_property: computed on the first
\* access of the instance and stored on it
calibrations(m, g) ==
    [value |-> DataInfos[groups[g]].calibrations,
     memo |-> [m EXCEPT !.calibrations = @ \cup {g}],
     runs |-> IF g \in m.calibrations THEN 0 ELSE 1]

\* reader.blobs[typ].calibrations
Calibrations(typ) ==
    LET b == Blobs
    IN  IF b.raised THEN BlobsRaised(b, "calibrations")
        ELSE /\ typ \in DOMAIN b.map
             /\ LET g == b.map[typ]
                    c == calibrations(memo, g)
                IN  /\ memo' = c.memo
                    /\ computed' = [BlobsRun EXCEPT !.calibrations[g] = @ + c.runs]
                    /\ last' = [op |-> "calibrations", g |-> g,
                                result |-> c.value]
             /\ blobs' = Cached(b)
             /\ binfiles' = b.files
             /\ UNCHANGED <<groups, corrupt, registry, tag_registry, dt, wire>>

\* reader.blobs[typ].calibration = cal; self.calibrations is read when cal
\* is not None
SelectCalibration(typ, cal) ==
    LET b == Blobs
    IN  IF b.raised THEN BlobsRaised(b, "calibration")
        ELSE /\ typ \in DOMAIN b.map
             /\ LET g == b.map[typ]
                    r == calibration_setter(b.files[g], cal)
                    c == calibrations(memo, g)
                IN  /\ binfiles' = [b.files EXCEPT ![g] = r.state]
                    /\ memo' = IF cal = None THEN memo ELSE c.memo
                    /\ computed' =
                          IF cal = None THEN BlobsRun
                          ELSE [BlobsRun EXCEPT !.calibrations[g] = @ + c.runs]
                    /\ last' = [op |-> "calibration", g |-> g, cal |-> cal,
                                outcome |-> r.outcome, pre |-> b.files[g]]
             /\ blobs' = Cached(b)
             /\ UNCHANGED <<groups, corrupt, registry, tag_registry, dt, wire>>

\* reader.blobs[typ].unit = u
SelectUnit(typ, u) ==
    LET b == Blobs
    IN  IF b.raised THEN BlobsRaised(b, "unit")
        ELSE /\ typ \in DOMAIN b.map
             /\ LET g == b.map[typ]
                    r == unit_setter(b.files[g], u)
                IN  /\ binfiles' = [b.files EXCEPT ![g] = r.state]
                    /\ last' = [op |-> "unit", g |-> g, u |-> u,
                                outcome |-> r.outcome, pre |-> b.files[g]]
             /\ blobs' = Cached(b)
             /\ computed' = BlobsRun
             /\ UNCHANGED <<groups, corrupt, memo,
                            registry, tag_registry, dt, wire>>

\* reader.blobs[typ].get_physical_samples(t0, dt, block_slice)
BinGetPhysicalSamples(typ, t0, dtopt, block_slice) ==
    LET b == Blobs
    IN  IF b.raised THEN BlobsRaised(b, "bin_get_physical_samples")
        ELSE /\ typ \in DOMAIN b.map
             /\ LET g == b.map[typ]
                IN  last' = [op |-> "bin_get_physical_samples", g |-> g,
                             t0 |-> t0, dt |-> dtopt,
                             block_slice |-> block_slice,
                             result |-> get_physical_samples(
                                          b.files[g], g, t0, dtopt, block_slice)]
             /\ blobs' = Cached(b)
             /\ binfiles' = b.files
             /\ computed' = BlobsRun
             /\ UNCHANGED <<groups, corrupt, memo,
                            registry, tag_registry, dt, wire>>

\* Reader.get_physical_samples(t0, dt, channels)
reader_get_physical_samples(b, t0, dtopt, channels) ==
    LET chans == IF channels = <<>> THEN DOMAIN b.map ELSE channels[1]
    IN  [typ \in {t \in DOMAIN b.map : t \in chans} |->
            read_raw_samples(b.map[typ], t0, dtopt, <<>>)]

ReaderGetPhysicalSamples(t0, dtopt, channels) ==
    LET b == Blobs
    IN  IF b.raised THEN BlobsRaised(b, "reader_get_physical_samples")
        ELSE /\ last' = [op |-> "reader_get_physical_samples", t0 |-> t0,
                         dt |-> dtopt, channels |-> channels,
                         result |-> reader_get_physical_samples(
                                        b, t0, dtopt, channels)]
             /\ blobs' = Cached(b)
             /\ binfiles' = b.files
             /\ computed' = BlobsRun
             /\ UNCHANGED <<groups, corrupt, memo,
                            registry, tag_registry, dt, wire>>

\* bin_file.sampling_rate and bin_file.duration of the raw stream
sampling_rate(g) == SamplingRate
duration(g) == <<NumSamples, SamplingRate>>

\* Reader.sampling_rates
sampling_rates(b) == [typ \in DOMAIN b.map |-> sampling_rate(b.map[typ])]

SamplingRates ==
    LET b == Blobs
    IN  IF b.raised THEN BlobsRaised(b, "sampling_rates")
        ELSE /\ last' = [op |-> "sampling_rates", result |-> sampling_rates(b)]
             /\ blobs' = Cached(b)
             /\ binfiles' = b.files
             /\ computed' = BlobsRun
             /\ UNCHANGED <<groups, corrupt, memo,
                            registry, tag_registry, dt, wire>>

\* Reader.durations
durations(b) == [typ \in DOMAIN b.map |-> duration(b.map[typ])]

Durations ==
    LET b == Blobs
    IN  IF b.raised THEN BlobsRaised(b, "durations")
        ELSE /\ last' = [op |-> "durations", result |-> durations(b)]
             /\ blobs' = Cached(b)
             /\ binfiles' = b.files
             /\ computed' = BlobsRun
             /\ UNCHANGED <<groups, corrupt, memo,
                            registry, tag_registry, dt, wire>>

\* the names bound at module level in xml_files.py
xml_files_names ==
    {"logging", "ET", "datetime", "defaultdict", "np", "Tuple", "Dict",
     "List", "Any", "Union", "IO", "cached_property", "TEXT", "ATTR", "Epoch",
     "FilePointer", "XMLType", "XML", "FileInfo", "DataInfo", "Patient",
     "SensorLayout", "Coordinates", "Epochs", "EventTrack", "Categories",
     "DipoleSet"}

\* info.recordTime of the container's info document
RecordTime == "recordTime"

\* Reader.startdatetime: the cached value, or xml_files.open(...).recordTime
\* stored in self._startdatetime; looking up a name the module does not bind
\* raises AttributeError before anything is stored
startdatetime(m) ==
    IF m.startdatetime # <<>>
    THEN [outcome |-> "ok", value |-> m.startdatetime, memo |-> m, runs |-> 0]
    ELSE IF "open" \notin xml_files_names
    THEN [outcome |-> "AttributeError", value |-> <<>>, memo |-> m, runs |-> 1]
    ELSE [outcome |-> "ok", value |-> <<RecordTime>>,
          memo |-> [m EXCEPT !.startdatetime = <<RecordTime>>], runs |-> 1]

StartDatetime ==
    /\ computed.startdatetime < MaxAccesses
    /\ LET r == startdatetime(memo)
       IN  /\ memo' = r.memo
           /\ computed' = [computed EXCEPT !.startdatetime = @ + r.runs]
           /\ last' = [op |-> "startdatetime", outcome |-> r.outcome,
                       result |-> r.value]
    /\ UNCHANGED <<groups, blobs, binfiles, corrupt,
                   registry, tag_registry, dt, wire>>

T0s == 0..MaxT0
Dts == {<<>>, <<1>>, <<3>>}
BlockSlices == {<<>>} \cup {<<a, a + 1>> : a \in 0..(NumBlocks - 1)}
ChannelArgs == {<<>>, <<{"EEG"}>>, <<{"PNS"}>>, <<{"EEG", "PNS"}>>}

\* nothing cached, nothing computed
NoMemo == [calibrations |-> {}, startdatetime |-> <<>>]
NothingComputed ==
    [blobs |-> 0, startdatetime |-> 0,
     calibrations |-> [g \in 1..NumGroups |-> 0]]

Init ==
    /\ groups \in [1..NumGroups -> DOMAIN DataInfos]
    /\ blobs = [has |-> FALSE, map |-> EmptyMap]
    /\ binfiles = [j \in {} |-> 0]
    /\ corrupt = 0
    /\ memo = NoMemo
    /\ computed = NothingComputed
    /\ last = [op |-> "init"]
    /\ registry = <<>>
    /\ tag_registry = <<>>
    /\ dt = <<>>
    /\ wire = <<>>

Next ==
    \/ AccessBlobs
    \/ \E typ \in SignalTypes, cal \in CalNames \cup {None} :
          SelectCalibration(typ, cal)
    \/ \E typ \in SignalTypes, u \in Units : SelectUnit(typ, u)
    \/ \E typ \in SignalTypes, t0 \in T0s, d \in Dts, bs \in BlockSlices :
          BinGetPhysicalSamples(typ, t0, d, bs)
    \/ \E t0 \in T0s, d \in Dts, ch \in ChannelArgs :
          ReaderGetPhysicalSamples(t0, d, ch)

Spec == Init /\ [][Next]_vars

\* A Reader over a container in which at most one group cannot be opened:
\* every access of its lazily built values
ReaderInit ==
    /\ groups \in [1..NumGroups -> DOMAIN DataInfos]
    /\ corrupt \in 0..NumGroups
    /\ blobs = [has |-> FALSE, map |-> EmptyMap]
    /\ binfiles = [j \in {} |-> 0]
    /\ memo = NoMemo
    /\ computed = NothingComputed
    /\ last = [op |-> "init"]
    /\ registry = <<>>
    /\ tag_registry = <<>>
    /\ dt = <<>>
    /\ wire = <<>>

ReaderNext ==
    \/ AccessBlobs
    \/ AccessBlobsAgain
    \/ SamplingRates
    \/ Durations
    \/ StartDatetime
    \/ \E typ \in SignalTypes : Calibrations(typ)
    \/ \E typ \in SignalTypes, cal \in CalNames \cup {None} :
          SelectCalibration(typ, cal)
    \/ \E t0 \in T0s, ch \in ChannelArgs :
          ReaderGetPhysicalSamples(t0, <<>>, ch)

ReaderSpec == ReaderInit /\ [][ReaderNext]_vars

\* ------------------------------------------------------------------------
\* Claims about BinFile and Reader, under Spec
\* ------------------------------------------------------------------------
IsCalibrationCall == last.op = "calibration"
CalsOf(bf) == DataInfos[bf.info].calibrations

\* C1: selecting a calibration whose beginTime is not 0 fails and leaves the
\* calibration matrix with the factors it held before the call.
C1_FailedSelectionKeepsMatrix ==
    (IsCalibrationCall /\ last.cal \in DOMAIN CalsOf(last.pre)
        /\ CalsOf(last.pre)[last.cal].beginTime # 0)
    => /\ last.outcome # "ok"
       /\ binfiles[last.g].calibration = last.pre.calibration

SuccessfulSelection ==
    IsCalibrationCall /\ last.cal # None /\ last.outcome = "ok"

C3_PhysicalIsRawTimesCalibrationTimesScale ==
    last.op = "bin_get_physical_samples" =>
        LET raw == read_raw_samples(last.g, last.t0, last.dt, last.block_slice)
            bf == binfiles[last.g]
        IN  /\ last.result.start_time = raw.start_time
            /\ DOMAIN last.result.samples = Rows
            /\ \A r \in Rows :
                  /\ DOMAIN last.result.samples[r] = DOMAIN raw.samples[r]
                  /\ \A i \in DOMAIN raw.samples[r] :
                        last.result.samples[r][i] =
                           NumMul(NumMul(ToNum(raw.samples[r][i]),
                                         ToNum(bf.calibration[r])),
                                  Pow10(bf.scale))

\* a read of non-zero samples under distinct per-channel factors and a
\* unit scale other than 1
C3_Witness ==
    /\ last.op = "bin_get_physical_samples"
    /\ binfiles[last.g].scale # 0
    /\ \E r1, r2 \in Rows :
          /\ binfiles[last.g].calibration[r1] # binfiles[last.g].calibration[r2]
          /\ binfiles[last.g].calibration[r1] # 1
          /\ \E i \in DOMAIN last.result.samples[r1] :
                last.result.samples[r1][i].m # 0
          /\ \E i \in DOMAIN last.result.samples[r2] :
                last.result.samples[r2][i].m # 0

\* C4: Reader.get_physical_samples returns, for exactly the signal types of
\* blobs that are in channels (all when channels is omitted), the samples of
\* that stream's BinFile.get_physical_samples(t0, dt).
C4_ReaderReturnsPhysicalSamples ==
    last.op = "reader_get_physical_samples" =>
        LET chans == IF last.channels = <<>> THEN DOMAIN blobs.map
                     ELSE last.channels[1]
        IN  /\ DOMAIN last.result = (DOMAIN blobs.map) \cap chans
            /\ \A typ \in DOMAIN last.result :
                  LET g == blobs.map[typ]
                      phys == get_physical_samples(
                                  binfiles[g], g, last.t0, last.dt, <<>>)
                      got == last.result[typ]
                  IN  /\ got.start_time = phys.start_time
                      /\ \A r \in Rows :
                            /\ DOMAIN got.samples[r] = DOMAIN phys.samples[r]
                            /\ \A i \in DOMAIN got.samples[r] :
                                  ToNum(got.samples[r][i]) = phys.samples[r][i]

\* the closed conversion table, by (native unit, target unit)
UnitPairs ==
    { <<"V", "V", 0>>, <<"mV", "mV", 0>>, <<"uV", "uV", 0>>,
      <<"V", "mV", 3>>, <<"mV", "V", -3>>, <<"V", "uV", 6>>,
      <<"uV", "V", -6>>, <<"mV", "uV", 3>>, <<"uV", "mV", -3>> }

\* C5: selecting a unit whose (native, target) pair is not in the table
\* fails and leaves unit and scale as they were; selecting a pair of the
\* table sets the scale to the table's factor for that pair.
C5_UnitSelection ==
    last.op = "unit" =>
        LET bf == binfiles[last.g]
            hits == {p \in UnitPairs : p[1] = raw_unit /\ p[2] = last.u}
        IN  IF hits = {}
            THEN /\ last.outcome # "ok"
                 /\ bf.unit = last.pre.unit
                 /\ bf.scale = last.pre.scale
            ELSE /\ last.outcome = "ok"
                 /\ \A p \in hits : bf.scale = p[3]
                 /\ bf.unit = last.u

\* a rejected unit after a unit with a scale other than 1 was selected
C5_Witness ==
    /\ last.op = "unit"
    /\ last.outcome = "KeyError"
    /\ last.pre.scale # 0
    /\ last.pre.unit # raw_unit
    /\ last.u # last.pre.unit

\* ------------------------------------------------------------------------
\* XMLType (xml_files.py): the schema registry
\* ------------------------------------------------------------------------
\* a class attribute: missing, None, or a string
Missing == [kind |-> "missing", val |-> ""]
NoneAttr == [kind |-> "None", val |-> ""]
Str(v) == [kind |-> "str", val |-> v]

XMLClass(ns, tag, filename, content) ==
    [xmlns |-> ns, xmlroottag |-> tag, default_filename |-> filename,
     has_content |-> content]

\* the classes of xml_files.py, and after them classes a caller defines:
\* a subclass of FileInfo (inherits namespace, root tag and content), a
\* class with the root tag of Epochs in another namespace, a class of a
\* new schema without content, and two classes that cannot be registered
XMLTypes ==
    [ XML |-> XMLClass(Missing, Missing, "", FALSE),
      FileInfo |-> XMLClass(Str("{http://www.egi.com/info_mff}"),
                            Str("fileInfo"), "info.xml", TRUE),
      DataInfo |-> XMLClass(Str("{http://www.egi.com/info_n_mff}"),
                            Str("dataInfo"), "info1.xml", TRUE),
      Patient |-> XMLClass(Str("{http://www.egi.com/subject_mff}"),
                           Str("patient"), "subject.xml", TRUE),
      SensorLayout |-> XMLClass(Str("{http://www.egi.com/sensorLayout_mff}"),
                                Str("sensorLayout"), "sensorLayout.xml", FALSE),
      Coordinates |-> XMLClass(Str("{http://www.egi.com/coordinates_mff}"),
                               Str("coordinates"), "coordinates.xml", FALSE),
      Epochs |-> XMLClass(Str("{http://www.egi.com/epochs_mff}"),
                          Str("epochs"), "epochs.xml", TRUE),
      EventTrack |-> XMLClass(Str("{http://www.egi.com/event_mff}"),
                              Str("eventTrack"), "Events.xml", TRUE),
      Categories |-> XMLClass(Str("{http://www.egi.com/categories_mff}"),
                              Str("categories"), "categories.xml", FALSE),
      DipoleSet |-> XMLClass(Str("{http://www.egi.com/dipoleSet_mff}"),
                             Str("dipoleSet"), "dipoleSet.xml", FALSE),
      FileInfoSub |-> XMLClass(Str("{http://www.egi.com/info_mff}"),
                               Str("fileInfo"), "info.xml", TRUE),
      AltEpochs |-> XMLClass(Str("{http://example.org/alt}"),
                             Str("epochs"), "alt.xml", TRUE),
      Custom |-> XMLClass(Str("{http://example.org/alt}"),
                          Str("custom"), "", FALSE),
      NoRootTag |-> XMLClass(Str("{http://example.org/alt}"),
                             Missing, "", FALSE),
      NoneNamespace |-> XMLClass(NoneAttr, Str("custom"), "", FALSE) ]

\* the class statements of xml_files.py, in order
ImportOrder ==
    <<"XML", "FileInfo", "DataInfo", "Patient", "SensorLayout",
      "Coordinates", "Epochs", "EventTrack", "Categories", "DipoleSet">>

UserTypes == {"FileInfoSub", "AltEpochs", "Custom", "NoRootTag", "NoneNamespace"}

Put(f, k, v) == [x \in (DOMAIN f) \cup {k} |-> IF x = k THEN v ELSE f[x]]

\* xml_type._xmlns + xml_type._xmlroottag raises AttributeError for a
\* missing attribute and TypeError when one of them is None
CanConcat(T) ==
    XMLTypes[T].xmlns.kind = "str" /\ XMLTypes[T].xmlroottag.kind = "str"

ns_tag(T) == XMLTypes[T].xmlns.val \o XMLTypes[T].xmlroottag.val

\* a register that keeps the entry already there
register_keeping(reg, T) ==
    IF ~CanConcat(T)
    THEN [registry |-> reg.registry, tag_registry |-> reg.tag_registry,
          log |-> <<[level |-> "info", about |-> T]>>, result |-> FALSE]
    ELSE IF ns_tag(T) \in DOMAIN reg.registry
    THEN [registry |-> reg.registry, tag_registry |-> reg.tag_registry,
          log |-> <<[level |-> "warn", about |-> reg.registry[ns_tag(T)]]>>,
          result |-> TRUE]
    ELSE [registry |-> Put(reg.registry, ns_tag(T), T),
          tag_registry |-> Put(reg.tag_registry, XMLTypes[T].xmlroottag.val, T),
          log |-> <<>>, result |-> TRUE]

\* a register that adds the tag key always, the namespace key only when new
register_tag_always(reg, T) ==
    IF ~CanConcat(T)
    THEN [registry |-> reg.registry, tag_registry |-> reg.tag_registry,
          log |-> <<[level |-> "info", about |-> T]>>, result |-> FALSE]
    ELSE [registry |-> IF ns_tag(T) \in DOMAIN reg.registry THEN reg.registry
                       ELSE Put(reg.registry, ns_tag(T), T),
          tag_registry |-> Put(reg.tag_registry, XMLTypes[T].xmlroottag.val, T),
          log |-> IF ns_tag(T) \in DOMAIN reg.registry
                  THEN <<[level |-> "warn", about |-> reg.registry[ns_tag(T)]]>>
                  ELSE <<>>,
          result |-> TRUE]

\* XMLType.register
register(reg, T) ==
    IF ~CanConcat(T)
    THEN [registry |-> reg.registry, tag_registry |-> reg.tag_registry,
          log |-> <<[level |-> "info", about |-> T]>>, result |-> FALSE]
    ELSE [registry |-> Put(reg.registry, ns_tag(T), T),
          tag_registry |-> Put(reg.tag_registry, XMLTypes[T].xmlroottag.val, T),
          log |-> IF ns_tag(T) \in DOMAIN reg.registry
                  THEN <<[level |-> "warn", about |-> reg.registry[ns_tag(T)]]>>
                  ELSE <<>>,
          result |-> TRUE]

\* XMLType.__new__ for each class statement of the module, from the i-th on
RECURSIVE Import(_, _)
Import(i, reg) ==
    IF i > Len(ImportOrder) THEN reg
    ELSE Import(i + 1, register(reg, ImportOrder[i]))

EmptyRegistry ==
    [registry |-> [k \in {} |-> ""], tag_registry |-> [k \in {} |-> ""]]

\* a from_file that falls back to the base class for an unknown root tag
from_file_lenient(reg, tag) ==
    IF tag \in DOMAIN reg THEN [outcome |-> "ok", instance_of |-> reg[tag]]
    ELSE [outcome |-> "ok", instance_of |-> "XML"]

\* XMLType.from_file on a well-formed document whose root element has the
\* ElementTree tag `tag` ("{namespace}name", or "name" without a namespace)
from_file(reg, tag) ==
    IF tag \in DOMAIN reg THEN [outcome |-> "ok", instance_of |-> reg[tag]]
    ELSE [outcome |-> "KeyError", arg |-> tag]

\* T.content(**kwargs) for keyword arguments that fit T's content: the
\* classes that do not override XML.content raise NotImplementedError
content(T, kwargs) ==
    IF XMLTypes[T].has_content
    THEN [outcome |-> "ok", value |-> [of |-> T, fields |-> kwargs]]
    ELSE [outcome |-> "NotImplementedError"]

\* XMLType.todict
todict(tagreg, xmltype, kwargs) ==
    IF xmltype \notin DOMAIN tagreg THEN [outcome |-> "AssertionError"]
    ELSE LET T == tagreg[xmltype]
             c == content(T, kwargs)
             ns == XMLTypes[T].xmlns.val
         IN  IF c.outcome # "ok" THEN [outcome |-> c.outcome]
             ELSE [outcome |-> "ok",
                   value |-> [content |-> c.value,
                              rootname |-> XMLTypes[T].xmlroottag.val,
                              filename |-> XMLTypes[T].default_filename,
                              namespace |-> SubSeq(ns, 2, Len(ns) - 1)]]

\* root tags of the documents read, and logical names asked for
DocTags ==
    {ns_tag(T) : T \in {U \in DOMAIN XMLTypes : CanConcat(U)}}
        \cup {"fileInfo", "{http://www.egi.com/info_mff}epochs",
              "{http://example.org/unknown}thing"}
LogicalNames ==
    {XMLTypes[T].xmlroottag.val : T \in {U \in DOMAIN XMLTypes : CanConcat(U)}}
        \cup {"FileInfo", "unknown"}
Kwargs == {"fields1", "fields2"}

Registries == [registry |-> registry, tag_registry |-> tag_registry]

Register(T) ==
    LET r == register(Registries, T)
    IN  /\ registry' = r.registry
        /\ tag_registry' = r.tag_registry
        /\ last' = [op |-> "register", type |-> T, result |-> r.result,
                    log |-> r.log, pre |-> Registries]
        /\ UNCHANGED <<groups, blobs, binfiles, corrupt, memo, computed, dt, wire>>

FromFile(tag) ==
    /\ last' = [op |-> "from_file", tag |-> tag,
                result |-> from_file(registry, tag), pre |-> Registries]
    /\ UNCHANGED <<groups, blobs, binfiles, corrupt, memo, computed,
                   registry, tag_registry, dt, wire>>

ToDict(xmltype, kwargs) ==
    /\ last' = [op |-> "todict", xmltype |-> xmltype, kwargs |-> kwargs,
                result |-> todict(tag_registry, xmltype, kwargs),
                pre |-> Registries]
    /\ UNCHANGED <<groups, blobs, binfiles, corrupt, memo, computed,
                   registry, tag_registry, dt, wire>>

RegistryInit ==
    /\ groups = <<>>
    /\ blobs = [has |-> FALSE, map |-> EmptyMap]
    /\ binfiles = [j \in {} |-> 0]
    /\ corrupt = 0
    /\ memo = NoMemo
    /\ computed = NothingComputed
    /\ last = [op |-> "init"]
    /\ registry = Import(1, EmptyRegistry).registry
    /\ tag_registry = Import(1, EmptyRegistry).tag_registry
    /\ dt = <<>>
    /\ wire = <<>>

RegistryNext ==
    \/ \E T \in DOMAIN XMLTypes : Register(T)
    \/ \E tag \in DocTags : FromFile(tag)
    \/ \E n \in LogicalNames, kw \in Kwargs : ToDict(n, kw)

RegistrySpec == RegistryInit /\ [][RegistryNext]_vars

\* ------------------------------------------------------------------------
\* Claims about the registry, under RegistrySpec
\* ------------------------------------------------------------------------
\* C6: from_file on a document whose root tag has a registry entry constructs
\* an instance of the type registered under it at that moment; on a document
\* whose root tag has no entry it fails with an error that names the tag,
\* and both registries stay as they were.
C6_FromFileDispatch ==
    last.op = "from_file" =>
        /\ registry = last.pre.registry
        /\ tag_registry = last.pre.tag_registry
        /\ IF \E k \in DOMAIN registry : k = last.tag
           THEN /\ last.result.outcome = "ok"
                /\ last.result.instance_of = registry[last.tag]
           ELSE /\ last.result.outcome # "ok"
                /\ last.result.arg = last.tag

\* an unregistered root tag is refused after callers registered types
C6_Witness ==
    /\ last.op = "from_file"
    /\ last.result.outcome = "KeyError"
    /\ last.tag = "{http://www.egi.com/info_mff}epochs"
    /\ "{http://example.org/alt}epochs" \in DOMAIN registry
    /\ registry["{http://www.egi.com/info_mff}fileInfo"] = "FileInfoSub"

\* C7: todict returns the content with the type's root name, default
\* filename and namespace without braces for every registered logical name,
\* and fails only for a logical name that is not registered.
C7_ToDictSucceedsForRegistered ==
    last.op = "todict" =>
        IF last.xmltype \in DOMAIN tag_registry
        THEN LET T == tag_registry[last.xmltype]
             IN  /\ last.result.outcome = "ok"
                 /\ last.result.value.rootname = XMLTypes[T].xmlroottag.val
                 /\ last.result.value.filename = XMLTypes[T].default_filename
                 /\ "{" \o last.result.value.namespace \o "}"
                       = XMLTypes[T].xmlns.val
        ELSE last.result.outcome # "ok"

IsDuplicateRegistration ==
    /\ last.op = "register"
    /\ CanConcat(last.type)
    /\ \E k \in DOMAIN last.pre.registry :
          /\ XMLTypes[last.pre.registry[k]].xmlns = XMLTypes[last.type].xmlns
          /\ XMLTypes[last.pre.registry[k]].xmlroottag
                = XMLTypes[last.type].xmlroottag

\* C8: registering a type whose (namespace, root tag) is already registered
\* succeeds, a later from_file under that (namespace, root tag) gives the new
\* type, the overwrite of the old type is logged, and the entries of every
\* other (namespace, root tag) are unchanged.
C8_DuplicateRegistrationOverwrites ==
    IsDuplicateRegistration =>
        LET key == XMLTypes[last.type].xmlns.val
                      \o XMLTypes[last.type].xmlroottag.val
        IN  /\ last.result = TRUE
            /\ from_file(registry, key) =
                  [outcome |-> "ok", instance_of |-> last.type]
            /\ \E i \in DOMAIN last.log :
                  last.log[i] = [level |-> "warn",
                                 about |-> last.pre.registry[key]]
            /\ DOMAIN registry = DOMAIN last.pre.registry
            /\ \A k \in DOMAIN registry \ {key} :
                  registry[k] = last.pre.registry[k]

\* a different type took over an entry while other callers' entries exist
C8_Witness ==
    /\ IsDuplicateRegistration
    /\ last.type = "FileInfoSub"
    /\ last.pre.registry["{http://www.egi.com/info_mff}fileInfo"] = "FileInfo"
    /\ registry["{http://www.egi.com/info_mff}fileInfo"] = "FileInfoSub"
    /\ "{http://example.org/alt}custom" \in DOMAIN registry

\* ------------------------------------------------------------------------
\* XML._dump_datetime / XML._parse_time_str (xml_files.py) over text.
\* A datetime is [year, month, day, hour, minute, second, microsecond, tz];
\* tz is <<>> when tzinfo is None and <<utc offset in seconds>> otherwise.
\* Years are 1000..9999 (strftime's %Y pads shorter years on some platforms
\* only); a tzinfo whose utcoffset() is None and offsets with a fraction of
\* a second are not modelled.
\* ------------------------------------------------------------------------
Ch(s, i) == SubSeq(s, i, i)
Digits == "0123456789"
Digit(n) == Ch(Digits, n + 1)
IsDigit(c) == \E n \in 0..9 : Digit(n) = c
DigitVal(c) == CHOOSE n \in 0..9 : Digit(n) = c

\* n in decimal, zero-padded to w digits
RECURSIVE Pad(_, _)
Pad(n, w) == IF w = 0 THEN "" ELSE Pad(n \div 10, w - 1) \o Digit(n % 10)

AllDigits(s) == \A i \in 1..Len(s) : IsDigit(Ch(s, i))

\* int(s) for a string of digits
RECURSIVE ParseInt(_)
ParseInt(s) ==
    IF Len(s) = 0 THEN 0
    ELSE 10 * ParseInt(SubSeq(s, 1, Len(s) - 1)) + DigitVal(Ch(s, Len(s)))

Abs(n) == IF n < 0 THEN -n ELSE n

\* strftime's %z: empty for a naive datetime, else +HHMM, with SS appended
\* when the offset is not a whole number of minutes
FormatZ(tz) ==
    IF tz = <<>> THEN ""
    ELSE LET a == Abs(tz[1])
         IN  (IF tz[1] < 0 THEN "-" ELSE "+")
                \o Pad(a \div 3600, 2) \o Pad((a % 3600) \div 60, 2)
                \o (IF a % 60 # 0 THEN Pad(a % 60, 2) ELSE "")

\* dt.strftime("%Y-%m-%dT%H:%M:%S.%f%z")
strftime(d) ==
    Pad(d.year, 4) \o "-" \o Pad(d.month, 2) \o "-" \o Pad(d.day, 2) \o "T"
        \o Pad(d.hour, 2) \o ":" \o Pad(d.minute, 2) \o ":" \o Pad(d.second, 2)
        \o "." \o Pad(d.microsecond, 6) \o FormatZ(d.tz)

\* XML._dump_datetime
dump_datetime(d) ==
    IF d.tz = <<>> THEN [outcome |-> "AssertionError"]
    ELSE LET txt == strftime(d)
         IN  [outcome |-> "ok",
              text |-> SubSeq(txt, 1, Len(txt) - 2) \o ":"
                          \o SubSeq(txt, Len(txt) - 1, Len(txt))]

\* txt.count(c)
Count(s, c) == Cardinality({i \in 1..Len(s) : Ch(s, i) = c})

\* txt[::-1]
RECURSIVE Reverse(_)
Reverse(s) ==
    IF Len(s) = 0 THEN "" ELSE Ch(s, Len(s)) \o Reverse(SubSeq(s, 1, Len(s) - 1))

\* txt.replace(c, '', 1)
RemoveFirst(s, c) ==
    IF Count(s, c) = 0 THEN s
    ELSE LET i == CHOOSE j \in 1..Len(s) :
                     Ch(s, j) = c /\ \A k \in 1..(j - 1) : Ch(s, k) # c
         IN  SubSeq(s, 1, i - 1) \o SubSeq(s, i + 1, Len(s))

DaysIn(year, month) ==
    IF month \in {4, 6, 9, 11} THEN 30
    ELSE IF month # 2 THEN 31
    ELSE IF year % 4 = 0 /\ (year % 100 # 0 \/ year % 400 = 0) THEN 29
    ELSE 28

ValueError == [outcome |-> "ValueError"]

\* strptime's %z on the rest of the text: Z, or a sign, HH, MM and optional
\* SS, with colons either between all of them or between none
ParseZ(z) ==
    IF z = "Z" THEN <<0>>
    ELSE IF Len(z) < 5 \/ Ch(z, 1) \notin {"+", "-"} THEN <<>>
    ELSE LET body == SubSeq(z, 2, Len(z))
             plain ==
                IF Len(body) \in {4, 6} /\ AllDigits(body) THEN body
                ELSE IF Len(body) = 5 /\ Ch(body, 3) = ":"
                THEN SubSeq(body, 1, 2) \o SubSeq(body, 4, 5)
                ELSE IF Len(body) = 8 /\ Ch(body, 3) = ":" /\ Ch(body, 6) = ":"
                THEN SubSeq(body, 1, 2) \o SubSeq(body, 4, 5) \o SubSeq(body, 7, 8)
                ELSE ""
         IN  IF plain = "" \/ ~AllDigits(plain) THEN <<>>
             ELSE LET hh == ParseInt(SubSeq(plain, 1, 2))
                      mm == ParseInt(SubSeq(plain, 3, 4))
                      ss == IF Len(plain) = 6 THEN ParseInt(SubSeq(plain, 5, 6)) ELSE 0
                      secs == hh * 3600 + mm * 60 + ss
                  IN  IF mm > 59 \/ ss > 59 \/ secs >= 86400 THEN <<>>
                      ELSE <<IF Ch(z, 1) = "-" THEN -secs ELSE secs>>

\* the length of the run of digits of s from position i on, at most n
RECURSIVE DigitRun(_, _, _)
DigitRun(s, i, n) ==
    IF n = 0 \/ i > Len(s) \/ ~IsDigit(Ch(s, i)) THEN 0
    ELSE 1 + DigitRun(s, i + 1, n - 1)

RECURSIVE Times10(_, _)
Times10(v, k) == IF k = 0 THEN v ELSE Times10(10 * v, k - 1)

\* datetime.strptime(txt, "%Y-%m-%dT%H:%M:%S.%f%z") for text whose date and
\* time fields are written with all their digits; %f takes 1 to 6 digits
strptime(txt) ==
    IF Len(txt) < 21 THEN ValueError
    ELSE IF ~(/\ AllDigits(SubSeq(txt, 1, 4)) /\ Ch(txt, 5) = "-"
              /\ AllDigits(SubSeq(txt, 6, 7)) /\ Ch(txt, 8) = "-"
              /\ AllDigits(SubSeq(txt, 9, 10)) /\ Ch(txt, 11) = "T"
              /\ AllDigits(SubSeq(txt, 12, 13)) /\ Ch(txt, 14) = ":"
              /\ AllDigits(SubSeq(txt, 15, 16)) /\ Ch(txt, 17) = ":"
              /\ AllDigits(SubSeq(txt, 18, 19)) /\ Ch(txt, 20) = ".")
    THEN ValueError
    ELSE LET k == DigitRun(txt, 21, 6)
             tz == ParseZ(SubSeq(txt, 21 + k, Len(txt)))
             d == [year |-> ParseInt(SubSeq(txt, 1, 4)),
                   month |-> ParseInt(SubSeq(txt, 6, 7)),
                   day |-> ParseInt(SubSeq(txt, 9, 10)),
                   hour |-> ParseInt(SubSeq(txt, 12, 13)),
                   minute |-> ParseInt(SubSeq(txt, 15, 16)),
                   second |-> ParseInt(SubSeq(txt, 18, 19)),
                   microsecond |-> Times10(ParseInt(SubSeq(txt, 21, 20 + k)), 6 - k),
                   tz |-> tz]
         IN  IF k = 0 \/ tz = <<>> THEN ValueError
             ELSE IF \/ d.year < 1 \/ d.month \notin 1..12
                     \/ d.day \notin 1..DaysIn(d.year, d.month)
                     \/ d.hour > 23 \/ d.minute > 59 \/ d.second > 59
             THEN ValueError
             ELSE [outcome |-> "ok", value |-> d]

\* a parse that drops the first colon of the text, not the last
parse_time_str_first_colon(txt) ==
    strptime(IF Count(txt, ":") = 3 THEN RemoveFirst(txt, ":") ELSE txt)

\* XML._parse_time_str
parse_time_str(txt) ==
    strptime(IF Count(txt, ":") = 3
             THEN Reverse(RemoveFirst(Reverse(txt), ":"))
             ELSE txt)

\* the datetimes handed to _dump_datetime
Offsets == {<<>>, <<0>>, <<-28800>>, <<-1800>>, <<19800>>, <<19815>>, <<-45>>}
DateTimes ==
    {d \in [year : {2003, 2020}, month : {2, 12}, day : {1, 29},
            hour : {0, 23}, minute : {0, 35}, second : {0, 59},
            microsecond : {0, 123, 999999}, tz : Offsets] :
        d.day <= DaysIn(d.year, d.month)}

\* timestamp texts found in documents other tools wrote
FileTexts ==
    {"2003-04-17T13:35:22.000000-08:00", "2003-04-17T13:35:22.000000-0800",
     "2003-04-17T13:35:22.5+05:30", "2003-04-17T13:35:22.000000Z",
     "2003-04-17T13:35:22.000000", "2003-02-30T13:35:22.000000+0100"}

NoWire == [origin |-> "none", text |-> ""]

\* XML._dump_datetime(dt); the text goes into a document
DumpDatetime ==
    /\ LET r == dump_datetime(dt)
       IN  /\ last' = [op |-> "dump", result |-> r]
           /\ wire' = IF r.outcome = "ok"
                      THEN [origin |-> "dump", text |-> r.text]
                      ELSE NoWire
    /\ UNCHANGED <<groups, blobs, binfiles, corrupt, memo, computed,
                   registry, tag_registry, dt>>

\* another writer's spelling of dt: the offset without the colon
WriteWithoutColon ==
    /\ dt.tz # <<>>
    /\ wire' = [origin |-> "nocolon", text |-> strftime(dt)]
    /\ last' = [op |-> "write"]
    /\ UNCHANGED <<groups, blobs, binfiles, corrupt, memo, computed,
                   registry, tag_registry, dt>>

\* a document of another tool is opened
ReadText(t) ==
    /\ wire' = [origin |-> "file", text |-> t]
    /\ last' = [op |-> "read"]
    /\ UNCHANGED <<groups, blobs, binfiles, corrupt, memo, computed,
                   registry, tag_registry, dt>>

\* XML._parse_time_str(text of the document)
ParseTimeStr ==
    /\ wire.origin # "none"
    /\ last' = [op |-> "parse", origin |-> wire.origin, txt |-> wire.text,
                result |-> parse_time_str(wire.text)]
    /\ UNCHANGED <<groups, blobs, binfiles, corrupt, memo, computed,
                   registry, tag_registry, dt, wire>>

TimeInit ==
    /\ groups = <<>>
    /\ blobs = [has |-> FALSE, map |-> EmptyMap]
    /\ binfiles = [j \in {} |-> 0]
    /\ corrupt = 0
    /\ memo = NoMemo
    /\ computed = NothingComputed
    /\ last = [op |-> "init"]
    /\ registry = <<>>
    /\ tag_registry = <<>>
    /\ dt \in DateTimes
    /\ wire = NoWire

TimeNext ==
    \/ DumpDatetime
    \/ WriteWithoutColon
    \/ \E t \in FileTexts : ReadText(t)
    \/ ParseTimeStr

TimeSpec == TimeInit /\ [][TimeNext]_vars

\* ------------------------------------------------------------------------
\* Claims about the timestamp wire format, under TimeSpec
\* ------------------------------------------------------------------------
\* seconds since the start of the month, in UTC
MonthSecondsUTC(d) ==
    ((d.day * 24 + d.hour) * 60 + d.minute) * 60 + d.second - d.tz[1]

SameInstant(a, b) ==
    /\ a.tz # <<>> /\ b.tz # <<>>
    /\ a.year = b.year /\ a.month = b.month
    /\ MonthSecondsUTC(a) = MonthSecondsUTC(b)
    /\ a.microsecond = b.microsecond

IsSign(c) == c \in {"+", "-"}

\* C10: _parse_time_str takes the offset written +hh:mm and written +hhmm
\* and gives the same instant for both; the output of _dump_datetime ends
\* with the offset as six characters, sign hh:mm.
C10_OffsetSpelling ==
    /\ (last.op = "parse" /\ last.origin = "nocolon" /\ dt.tz[1] % 60 = 0) =>
          /\ last.result.outcome = "ok"
          /\ parse_time_str(SubSeq(last.txt, 1, Len(last.txt) - 2) \o ":"
                \o SubSeq(last.txt, Len(last.txt) - 1, Len(last.txt)))
                = last.result
          /\ SameInstant(last.result.value, dt)
    /\ (last.op = "dump" /\ last.result.outcome = "ok") =>
          LET t == last.result.text
              n == Len(t)
          IN  /\ IsSign(Ch(t, n - 5))
              /\ IsDigit(Ch(t, n - 4)) /\ IsDigit(Ch(t, n - 3))
              /\ Ch(t, n - 2) = ":"
              /\ IsDigit(Ch(t, n - 1)) /\ IsDigit(Ch(t, n))

\* ------------------------------------------------------------------------
\* Claims checked under ReaderSpec
\* ------------------------------------------------------------------------
\* the signal type of group g, from its DataInfo document
signal_type_of(g) == DataInfos[groups[g]].channel_type

\* the first-seen group of signal type t
FirstSeen(t) ==
    CHOOSE g \in 1..NumGroups :
        /\ signal_type_of(g) = t
        /\ \A h \in 1..NumGroups : signal_type_of(h) = t => g <= h

\* the groups whose BinFile was constructed
LoadedGroups == DOMAIN binfiles

\* the operations that return a value computed from Reader.blobs
MapReads == {"blobs", "sampling_rates", "durations", "reader_get_physical_samples"}

\* C11: once Reader.blobs has been built over groups that all open, its keys
\* are the signal types of the discovered groups, and the entry kept under a
\* key is the first-seen group of that signal type.
C11_KeyedBySignalTypeFirstSeen ==
    (blobs.has /\ corrupt = 0) =>
        /\ LoadedGroups = 1..NumGroups
        /\ DOMAIN blobs.map = {signal_type_of(g) : g \in 1..NumGroups}
        /\ \A g \in 1..NumGroups :
              blobs.map[signal_type_of(g)] = FirstSeen(signal_type_of(g))

\* C12: when the first access of Reader.blobs failed on a group, no later
\* access of blobs, sampling_rates, durations or get_physical_samples
\* succeeds over a map that omits groups.
C12_FailedBuildStaysFailed ==
    (blobs.has /\ LoadedGroups # 1..NumGroups) => last.op \notin MapReads

\* C13: every lazily computed value (info.calibrations, Reader.blobs,
\* Reader.startdatetime) is computed exactly once, on the first access, and
\* every access returns the same value.
C13_ComputedOnceAndServed ==
    /\ computed.blobs <= 1
    /\ computed.startdatetime <= 1
    /\ \A g \in DOMAIN computed.calibrations : computed.calibrations[g] <= 1
    /\ (last.op = "blobs") =>
          computed.blobs = 1 /\ last.result = blobs.map
    /\ (last.op = "calibrations") =>
          /\ computed.calibrations[last.g] = 1
          /\ last.result = DataInfos[groups[last.g]].calibrations
    /\ (last.op = "startdatetime") =>
          /\ computed.startdatetime = 1
          /\ last.outcome = "ok"
          /\ last.result = <<RecordTime>>

\* ------------------------------------------------------------------------
\* Further claims checked under Spec
\* ------------------------------------------------------------------------
\* C14: in every state reached by calibration selections (successful, failed
\* or reset with None), unit selections and reads, the calibration matrix of
\* every BinFile has exactly one factor per channel, and immediately after
\* construction every factor is 1 and the unit scale is the identity.
C14_CalibrationMatrixShape ==
    /\ \A g \in DOMAIN binfiles :
          /\ DOMAIN binfiles[g].calibration = Rows
          /\ Cardinality(DOMAIN binfiles[g].calibration) = NumChannels
          /\ \A r \in Rows : binfiles[g].calibration[r] \in Int
    /\ (last.op = "blobs" /\ last.built) =>
          \A g \in DOMAIN binfiles :
              /\ \A r \in Rows : binfiles[g].calibration[r] = 1
              /\ Pow10(binfiles[g].scale) = ToNum(1)
              /\ binfiles[g].unit = raw_unit

\* a selection that failed on a channel number beyond the matrix, after it
\* had written a factor
C14_Witness ==
    /\ last.op = "calibration"
    /\ last.outcome = "IndexError"
    /\ binfiles[last.g].calibration # ones

\* the BinFile after `bf.calibration = cal` then `bf.unit = u`, and after
\* the two assignments in the other order
CalibrationThenUnit(bf, cal, u) ==
    unit_setter(calibration_setter(bf, cal).state, u).state
UnitThenCalibration(bf, cal, u) ==
    calibration_setter(unit_setter(bf, u).state, cal).state

\* C15: selecting a calibration then a unit leaves a BinFile in the same
\* (calibration matrix, unit, scale) state, and get_physical_samples returns
\* the same values, as selecting the unit then the calibration; a unit
\* selection leaves the matrix alone and a calibration selection leaves unit
\* and scale alone.  The two orders are compared from every state a
\* selection has left a BinFile in.
C15_SelectionsCommute ==
    /\ (last.op = "unit") =>
          binfiles[last.g].calibration = last.pre.calibration
    /\ (last.op = "calibration") =>
          /\ binfiles[last.g].unit = last.pre.unit
          /\ binfiles[last.g].scale = last.pre.scale
    /\ (last.op \in {"calibration", "unit"}) =>
          \A cal \in CalNames \cup {None}, u \in Units :
              LET g == last.g
                  cu == CalibrationThenUnit(binfiles[g], cal, u)
                  uc == UnitThenCalibration(binfiles[g], cal, u)
              IN  /\ cu.calibration = uc.calibration
                  /\ cu.unit = uc.unit
                  /\ cu.scale = uc.scale
                  /\ get_physical_samples(cu, g, 0, <<>>, <<>>)
                        = get_physical_samples(uc, g, 0, <<>>, <<>>)

\* a unit was selected on a BinFile whose calibration had been selected
C15_Witness ==
    /\ last.op = "unit"
    /\ last.outcome = "ok"
    /\ binfiles[last.g].scale # 0
    /\ last.pre.scale = 0
    /\ last.pre.calibration # ones
    /\ binfiles[last.g].calibration = last.pre.calibration

\* ------------------------------------------------------------------------
\* Further claims checked under RegistrySpec
\* ------------------------------------------------------------------------
\* the root tag ElementTree reads from a document written with the
\* namespace and root name of a todict value
WrittenRootTag(namespace, rootname) == "{" \o namespace \o "}" \o rootname

\* the namespace todict gives for type T, T._xmlns[1:-1]
WrittenNamespace(T) ==
    SubSeq(XMLTypes[T].xmlns.val, 2, Len(XMLTypes[T].xmlns.val) - 1)

\* C16: after any sequence of register calls the registries are coherent:
\* the type T stored in _tag_registry under root tag t has root tag t and is
\* the type stored in _registry under T's namespace and t, so from_file
\* reads a document written from todict(t) as T; a type that cannot be
\* registered leaves both registries unchanged.
C16_RegistriesCoherent ==
    /\ \A t \in DOMAIN tag_registry :
          LET T == tag_registry[t]
          IN  /\ CanConcat(T)
              /\ XMLTypes[T].xmlroottag.val = t
              /\ ns_tag(T) \in DOMAIN registry
              /\ registry[ns_tag(T)] = T
              /\ from_file(registry, WrittenRootTag(WrittenNamespace(T), t))
                    = [outcome |-> "ok", instance_of |-> T]
    /\ (last.op = "register" /\ ~CanConcat(last.type)) =>
          /\ last.result = FALSE
          /\ registry = last.pre.registry
          /\ tag_registry = last.pre.tag_registry
    /\ (last.op = "todict" /\ last.result.outcome = "ok") =>
          from_file(registry, WrittenRootTag(last.result.value.namespace,
                                             last.result.value.rootname))
              = [outcome |-> "ok", instance_of |-> tag_registry[last.xmltype]]

\* todict("epochs") after AltEpochs took the tag of Epochs: Epochs is still
\* registered under its namespace and no logical name leads to it
C16_Witness ==
    /\ last.op = "todict"
    /\ last.xmltype = "epochs"
    /\ last.result.outcome = "ok"
    /\ tag_registry["epochs"] = "AltEpochs"
    /\ registry[ns_tag("Epochs")] = "Epochs"
    /\ \A t \in DOMAIN tag_registry : tag_registry[t] # "Epochs"
====
